---- MODULE Spec2Model ----
(***************************************************************************)
(* Model of language/automl/automl_natural_language_sentiment_model.py:    *)
(* the eight model-lifecycle commands, each a client call to the remote    *)
(* AutoML service followed by printing of the response.                    *)
(*                                                                         *)
(* Strings that the program builds or takes apart (resource names) are     *)
(* sequences of tokens in which "/" is a token of its own, so that path    *)
(* construction and name.split("/")[-1] are computed, not assumed.         *)
(***************************************************************************)
EXTENDS Integers, Sequences, FiniteSets, TLC

\* ------------------------------------------------------------------ bounds

\* Number of command invocations (process runs) in one behaviour.
MaxInvocations == 2
\* Largest number of evaluation records the remote holds for model m1.
MaxEvals == 3
\* response.result() polls while the operation runs: polls that find it
\* running, in one invocation.
MaxPolls == 2

\* --------------------------------------------------------- program constants

\* enums.Model.DeploymentState.DEPLOYED
DEPLOYED == 1
\* Deployment-state values the remote may send: UNSPECIFIED, DEPLOYED,
\* UNDEPLOYED and a value the client's enum does not know.
DeploymentStates == {0, DEPLOYED, 2, 3}

\* os.environ["PROJECT_ID"], os.environ["REGION_NAME"]
project_id == "p"
compute_region == "us-central1"

\* Default of the list_models filter argument.
DefaultFilter == "text_sentiment_model_metadata:*"

\* NameError subclass raised on reading a local that was never assigned.
UnboundLocalError == "UnboundLocalError"
\* Value of a local variable that has not been assigned.
UNSET == "<unset>"

\* ------------------------------------------------------------ input domains

ModelIdArgs == {"m1", "m2"}
DatasetIdArgs == {"d1", "d9"}
ModelNameArgs == {"sent"}
FilterArgs == {DefaultFilter, "(("}
EvaluationIdArgs == {"e1", "e9"}

\* Ids the remote hands out, in order of creation.
OperationIds == <<"op1", "op2", "op3", "op4", "op5", "op6">>
NewModelIds == <<"m2", "m3", "m4", "m5", "m6", "m7">>
EvaluationIds == <<"e1", "e2", "e3", "e4", "e5", "e6">>
\* Datasets that exist on the remote.
Datasets == {"d1"}
\* annotation_spec_id values: "" marks the overall evaluation.
AnnotationSpecIds == {"", "pos"}

\* ----------------------------------------------------------- resource paths

location_path(project, location) ==
    <<"projects", "/", project, "/", "locations", "/", location>>

model_path(project, location, model) ==
    location_path(project, location) \o <<"/", "models", "/", model>>

model_evaluation_path(project, location, model, model_evaluation) ==
    model_path(project, location, model)
        \o <<"/", "modelEvaluations", "/", model_evaluation>>

operation_path(project, location, operation) ==
    location_path(project, location) \o <<"/", "operations", "/", operation>>

OperationName(i) == operation_path(project_id, compute_region, OperationIds[i])

OperationIdArgs ==
    {OperationName(1), operation_path(project_id, compute_region, "op9"),
     <<"bogus">>}

\* name.split("/")[-1]: the tokens after the last "/".
RECURSIVE LastSegment(_)
LastSegment(name) ==
    IF name = <<>> THEN <<>>
    ELSE IF name[Len(name)] = "/" THEN <<>>
    ELSE LastSegment(SubSeq(name, 1, Len(name) - 1)) \o <<name[Len(name)]>>

\* The id a split yields, as the string the program passes on.
SplitLast(name) ==
    LET seg == LastSegment(name)
    IN IF Len(seg) = 1 THEN seg[1] ELSE ""

\* ------------------------------------------------------------------- state

VARIABLES
    \* The remote service: models by id, long-running operations in order of
    \* creation, evaluation records by model id.
    models, operations, evaluations,
    \* The running process: args.command and its arguments, its position,
    \* the client call in flight, the value the last call returned, the local
    \* model_evaluation_id, the value get_model_evaluation returned in
    \* display_evaluation, the operation as get_operation last reported it
    \* to response.result() in delete_model, the lines printed, the uncaught
    \* exception.
    command, args, pc, request, response, model_evaluation_id,
    model_evaluation, operation, stdout, error,
    \* The elements the for loop over a list response has visited so far.
    elements,
    \* The client calls this invocation has issued, in order.
    calls,
    \* Invocations started so far.
    invocations

remote == <<models, operations, evaluations>>
vars == <<models, operations, evaluations, command, args, pc, request,
          response, model_evaluation_id, model_evaluation, operation, stdout, error,
          elements, calls, invocations>>

NoArgs == [model_evaluation_id |-> "", model_id |-> "", dataset_id |-> "",
           model_name |-> "", operation_full_id |-> <<>>, filter_ |-> ""]
NoRequest == [model |-> <<>>, name |-> <<>>, filter_ |-> "", method |-> "",
              page_token |-> 0]
NoResponse == [error |-> "", ok |-> TRUE, value |-> <<>>]

\* ---------------------------------------------------------- remote service

\* Metrics of the i-th evaluation record of a model, in units of 1e-5.  The
\* values differ from record to record.  Some lie halfway between two
\* hundredths of a percent: the precision of the first record and the mean
\* absolute error of the second are ties no binary float holds exactly,
\* every mean squared error is a tie a float holds exactly.
MetricFields == {"precision", "recall", "f1_score", "mean_absolute_error",
                 "mean_squared_error", "linear_kappa", "quadratic_kappa"}
FieldOffset(f) ==
    CASE f = "precision" -> 4 [] f = "recall" -> 16 [] f = "f1_score" -> 27
      [] f = "mean_absolute_error" -> 33 [] f = "linear_kappa" -> 56
      [] OTHER -> 67
EvalMetrics(i) ==
    [f \in MetricFields |->
        IF f = "mean_squared_error" THEN 3125 * (2 * i + 1)
        ELSE 10000 * (10 - i) + 1111 * i + FieldOffset(f)]

Evaluation(model, i, spec) ==
    [name |-> model_evaluation_path(project_id, compute_region, model,
                                    EvaluationIds[i]),
     annotation_spec_id |-> spec,
     metrics |-> EvalMetrics(i)]

\* The evaluation lists the remote may hold for m1: every length up to
\* MaxEvals, every assignment of scopes, ids distinct.
EvaluationLists ==
    UNION {{[i \in 1..n |-> Evaluation("m1", i, spec[i])] :
            spec \in [1..n -> AnnotationSpecIds]} : n \in 0..MaxEvals}

\* What training produces: a class-scoped record, then the overall one.
TrainedEvaluations(model) ==
    <<Evaluation(model, 1, "pos"), Evaluation(model, 2, "")>>

Model(id, display_name, dataset_id, state, seconds) ==
    [name |-> model_path(project_id, compute_region, id),
     dataset_id |-> dataset_id, display_name |-> display_name,
     deployment_state |-> state, create_time |-> seconds]

\* The ids of DOMAIN models in the order the remote lists them.
RECURSIVE SortedIds(_)
SortedIds(S) ==
    IF S = {} THEN <<>>
    ELSE LET all == <<"m1">> \o NewModelIds
             first == CHOOSE i \in 1..Len(all) :
                        /\ all[i] \in S
                        /\ \A j \in 1..(i - 1) : all[j] \notin S
         IN <<all[first]>> \o SortedIds(S \ {all[first]})

Ok(v) == [error |-> "", ok |-> TRUE, value |-> v]
Err(e) == [error |-> e, ok |-> FALSE, value |-> <<>>]

ModelIdOf(name) ==
    IF \E id \in DOMAIN models :
          name = model_path(project_id, compute_region, id)
    THEN CHOOSE id \in DOMAIN models :
          name = model_path(project_id, compute_region, id)
    ELSE ""

OperationIndex(name) ==
    IF \E i \in 1..Len(operations) : name = OperationName(i)
    THEN CHOOSE i \in 1..Len(operations) : name = OperationName(i)
    ELSE 0

\* Snapshot get_operation returns.
OperationStatus(i) ==
    [name |-> OperationName(i), error |-> operations[i].error,
     done |-> operations[i].status # "running"]

\* The evaluation records, of any model, that carry the name.
EvaluationsNamed(name) ==
    {e \in UNION {{evaluations[m][i] : i \in 1..Len(evaluations[m])} :
                    m \in DOMAIN evaluations} : e.name = name}

\* One page of a list: its items and the token of the next page, 0 when
\* the page is the last.
Page(items, next_page_token) ==
    [items |-> items, next_page_token |-> next_page_token]

\* Why the remote refuses a list request, "" when it does not.
ListError(req) ==
    IF req.method = "list_models"
    THEN IF req.filter_ = DefaultFilter THEN "" ELSE "INVALID_ARGUMENT"
    ELSE IF ModelIdOf(req.name) # "" THEN "" ELSE "NOT_FOUND"

\* The whole list a list request asks for.
Listed(req) ==
    IF req.method = "list_models"
    THEN [i \in 1..Cardinality(DOMAIN models) |->
             models[SortedIds(DOMAIN models)[i]]]
    ELSE evaluations[ModelIdOf(req.name)]

\* What the remote answers to a call that reads one resource.
Read(req) ==
    CASE req.method = "get_operation" ->
            IF OperationIndex(req.name) # 0
            THEN Ok(OperationStatus(OperationIndex(req.name)))
            ELSE IF /\ Len(req.name) = 11
                    /\ SubSeq(req.name, 1, 10) = SubSeq(OperationName(1), 1, 10)
                 THEN Err("NOT_FOUND")
                 ELSE Err("INVALID_ARGUMENT")
      [] req.method = "get_model" ->
            IF ModelIdOf(req.name) # ""
            THEN Ok(models[ModelIdOf(req.name)])
            ELSE Err("NOT_FOUND")
      [] req.method = "get_model_evaluation" ->
            IF EvaluationsNamed(req.name) # {}
            THEN Ok(CHOOSE e \in EvaluationsNamed(req.name) : TRUE)
            ELSE Err("NOT_FOUND")

\* The answer reaches what the call assigns to: response, or
\* model_evaluation for the second call of display_evaluation, or the
\* operation that response.result() refreshes in delete_model.
Reply(answer) ==
    IF pc = "awaiting"
    THEN response' = answer /\ UNCHANGED <<model_evaluation, operation>>
    ELSE IF command = "delete_model"
    THEN operation' = answer /\ UNCHANGED <<response, model_evaluation>>
    ELSE model_evaluation' = answer /\ UNCHANGED <<response, operation>>

\* The remote answers the call in flight.  Reads leave the remote as it is;
\* create_model and delete_model register a long-running operation.  A list
\* is handed out in pages of the remote's choosing, and the request for a
\* further page may fail.
Serve ==
    /\ pc \in {"awaiting", "awaiting2"}
    /\ pc' = IF pc = "awaiting" THEN "returned" ELSE "returned2"
    /\ UNCHANGED <<command, args, request, model_evaluation_id, stdout, error,
                   elements, calls, invocations>>
    /\ CASE request.method = "create_model" ->
              \/ /\ request.model.dataset_id \in Datasets
                 /\ operations' = Append(operations,
                        [error |-> "",
                         model_id |-> NewModelIds[Len(operations) + 1],
                         dataset_id |-> request.model.dataset_id,
                         display_name |-> request.model.display_name,
                         status |-> "running", kind |-> "create"])
                 /\ Reply(Ok(OperationName(Len(operations) + 1)))
                 /\ UNCHANGED <<models, evaluations>>
              \/ /\ request.model.dataset_id \in Datasets
                 /\ Reply(Err("RESOURCE_EXHAUSTED"))
                 /\ UNCHANGED remote
              \/ /\ request.model.dataset_id \notin Datasets
                 /\ Reply(Err("NOT_FOUND"))
                 /\ UNCHANGED remote
         [] request.method = "delete_model" ->
              IF ModelIdOf(request.name) # ""
              THEN /\ operations' = Append(operations,
                        [error |-> "",
                         model_id |-> ModelIdOf(request.name),
                         dataset_id |-> "", display_name |-> "",
                         status |-> "running", kind |-> "delete"])
                   /\ Reply(Ok(OperationName(Len(operations) + 1)))
                   /\ UNCHANGED <<models, evaluations>>
              ELSE /\ Reply(Err("NOT_FOUND"))
                   /\ UNCHANGED remote
         [] request.method \in {"list_models", "list_model_evaluations"} ->
              /\ UNCHANGED remote
              /\ IF ListError(request) # ""
                 THEN Reply(Err(ListError(request)))
                 ELSE LET list == Listed(request)
                          start == IF request.page_token = 0 THEN 1
                                   ELSE request.page_token
                      IN \/ \E end \in start..Len(list) :
                               Reply(Ok(Page(SubSeq(list, start, end),
                                             IF end < Len(list) THEN end + 1
                                             ELSE 0)))
                         \/ /\ start > Len(list)
                            /\ Reply(Ok(Page(<<>>, 0)))
                         \/ /\ request.page_token # 0
                            /\ Reply(Err("UNAVAILABLE"))
         [] OTHER ->
              /\ Reply(Read(request))
              /\ UNCHANGED remote

\* A long-running operation finishes, with or without the program waiting:
\* training adds the model and its evaluations, deletion removes them.
OperationCompletes ==
    \E i \in 1..Len(operations) :
        /\ operations[i].status = "running"
        /\ UNCHANGED <<command, args, pc, request, response,
                       model_evaluation_id, model_evaluation, operation, stdout, error,
                       elements, calls, invocations>>
        /\ \/ /\ operations' = [operations EXCEPT ![i].status = "done"]
              /\ LET id == operations[i].model_id
                 IN IF operations[i].kind = "create"
                    THEN /\ models' = [m \in DOMAIN models \cup {id} |->
                                IF m = id
                                THEN Model(id, operations[i].display_name,
                                           operations[i].dataset_id, DEPLOYED,
                                           90061 + i)
                                ELSE models[m]]
                         /\ evaluations' = [m \in DOMAIN models \cup {id} |->
                                IF m = id THEN TrainedEvaluations(id)
                                ELSE evaluations[m]]
                    ELSE /\ models' = [m \in DOMAIN models \ {id} |-> models[m]]
                         /\ evaluations' = [m \in DOMAIN models \ {id} |->
                                               evaluations[m]]
           \/ /\ operations' = [operations EXCEPT ![i].status = "error",
                                                  ![i].error = "ABORTED"]
              /\ UNCHANGED <<models, evaluations>>

Init ==
    /\ \E state \in DeploymentStates :
          models = [m \in {"m1"} |-> Model("m1", "sent", "d1", state, 90061)]
    /\ operations = <<>>
    /\ \E list \in EvaluationLists : evaluations = [m \in {"m1"} |-> list]
    /\ command = ""
    /\ args = NoArgs
    /\ pc = "idle"
    /\ request = NoRequest
    /\ response = NoResponse
    /\ model_evaluation_id = UNSET
    /\ model_evaluation = NoResponse
    /\ operation = NoResponse
    /\ stdout = <<>>
    /\ error = ""
    /\ elements = <<>>
    /\ calls = <<>>
    /\ invocations = 0

\* ----------------------------------------------------------------- program

\* A line of standard output: the format string and the value formatted in.
Line(text, value) == [value |-> value, text |-> text]

\* Mutant: the client call is issued twice.
Start_twice(cmd, a, req, lines) ==
    /\ pc = "idle"
    /\ invocations < MaxInvocations
    /\ invocations' = invocations + 1
    /\ command' = cmd
    /\ args' = a
    /\ request' = req
    /\ calls' = <<req.method, req.method>>
    /\ pc' = "awaiting"
    /\ stdout' = lines
    /\ UNCHANGED <<remote, response, model_evaluation_id, model_evaluation, operation,
                   error, elements>>

\* A command starts: parse_args has set args.command and the arguments, the
\* function has built its resource name, printed the lines that come before
\* the remote is first asked, and sends its first request.
Start(cmd, a, req, lines) ==
    /\ pc = "idle"
    /\ invocations < MaxInvocations
    /\ invocations' = invocations + 1
    /\ command' = cmd
    /\ args' = a
    /\ request' = req
    /\ calls' = <<req.method>>
    /\ pc' = "awaiting"
    /\ stdout' = lines
    /\ UNCHANGED <<remote, response, model_evaluation_id, model_evaluation, operation,
                   error, elements>>

\* An exception leaves the function: nothing catches it, the process ends
\* with it and nothing more is printed or called.
Raise(e) ==
    /\ pc' = "exit1"
    /\ error' = e
    /\ UNCHANGED <<remote, command, args, request, response,
                   model_evaluation_id, model_evaluation, operation, stdout, elements,
                   calls, invocations>>

\* The function prints and returns.
Return(lines) ==
    /\ pc' = "exit0"
    /\ stdout' = stdout \o lines
    /\ UNCHANGED <<remote, command, args, request, response,
                   model_evaluation_id, model_evaluation, operation, error, elements,
                   calls, invocations>>

\* The request for the page after the one in response.
NextPage ==
    /\ request' = [request EXCEPT
                      !.page_token = response.value.next_page_token]
    /\ calls' = Append(calls, request.method)
    /\ pc' = "awaiting"

\* The for loop has run over the page in response, printing lines: the
\* iterator asks for the next page, or is exhausted and the function
\* returns.
Iterate(lines) ==
    /\ stdout' = stdout \o lines
    /\ elements' = elements \o response.value.items
    /\ IF response.value.next_page_token # 0
       THEN NextPage
       ELSE pc' = "exit0" /\ UNCHANGED <<request, calls>>
    /\ UNCHANGED <<remote, command, args, response, model_evaluation_id,
                   model_evaluation, operation, error, invocations>>

\* round(x, 0) of n / d for n >= 0: to nearest, ties to even.
RoundHalfEven(n, d) ==
    LET q == n \div d
        r == n % d
    IN IF 2 * r < d THEN q
       ELSE IF 2 * r > d THEN q + 1
       ELSE IF q % 2 = 0 THEN q ELSE q + 1

\* What round(metric * 100, 2) can print, in hundredths of a percent, for a
\* metric given in units of 1e-5.  The program rounds the binary float that
\* stands for the metric.  Off a tie that is the nearest hundredth.  On a
\* tie that the float holds exactly (metric a multiple of 3125, that is of
\* 2^-5) it is the even neighbour.  On any other tie the float lies just
\* above or just below the tie, depending on the metric and on the width of
\* the float, and either neighbour can be printed.
Percent(metric) ==
    IF metric % 10 # 5 \/ metric % 3125 = 0
    THEN {RoundHalfEven(metric, 10)}
    ELSE {metric \div 10, metric \div 10 + 1}

\* datetime.fromtimestamp(seconds).strftime("%Y-%m-%dT%H:%M:%SZ") as
\* <<Y, m, d, H, M, S>>, for a time in January 1970 in a UTC process.
FormatTime(seconds) ==
    <<1970, 1, 1 + (seconds \div 86400), (seconds % 86400) \div 3600,
      (seconds % 3600) \div 60, seconds % 60>>

\* ---- create_model

create_model_call ==
    \E dataset_id \in DatasetIdArgs, model_name \in ModelNameArgs :
        Start("create_model",
              [NoArgs EXCEPT !.dataset_id = dataset_id,
                             !.model_name = model_name],
              [NoRequest EXCEPT
                  !.method = "create_model",
                  !.name = location_path(project_id, compute_region),
                  !.model = [dataset_id |-> dataset_id,
                             display_name |-> model_name,
                             text_sentiment_model_metadata |-> <<>>]],
              <<>>)

\* Mutant: create_model waits for the training operation, as delete_model
\* waits for the deletion.
create_model_print_blocking ==
    /\ command = "create_model"
    /\ pc = "returned"
    /\ IF ~response.ok THEN Raise(response.error)
       ELSE /\ operations[OperationIndex(response.value)].status # "running"
            /\ Return(<<Line("Training operation name: {}", response.value),
                        Line("Training started...", <<>>)>>)

create_model_print ==
    /\ command = "create_model"
    /\ pc = "returned"
    /\ IF ~response.ok THEN Raise(response.error)
       ELSE Return(<<Line("Training operation name: {}", response.value),
                     Line("Training started...", <<>>)>>)

create_model == create_model_call \/ create_model_print

\* ---- get_operation_status

get_operation_status_call ==
    \E operation_full_id \in OperationIdArgs :
        Start("get_operation_status",
              [NoArgs EXCEPT !.operation_full_id = operation_full_id],
              [NoRequest EXCEPT !.method = "get_operation",
                                !.name = operation_full_id],
              <<>>)

\* Mutant: a failed get_operation is tried once more.
get_operation_status_print_retry ==
    /\ command = "get_operation_status"
    /\ pc = "returned"
    /\ IF ~response.ok /\ Len(calls) < 2
       THEN /\ calls' = Append(calls, "get_operation")
            /\ pc' = "awaiting"
            /\ UNCHANGED <<remote, command, args, request, response,
                           model_evaluation_id, model_evaluation, operation, stdout,
                           error, elements, invocations>>
       ELSE IF ~response.ok THEN Raise(response.error)
       ELSE Return(<<Line("Operation status: {}", response.value)>>)

get_operation_status_print ==
    /\ command = "get_operation_status"
    /\ pc = "returned"
    /\ IF ~response.ok THEN Raise(response.error)
       ELSE Return(<<Line("Operation status: {}", response.value)>>)

get_operation_status == get_operation_status_call \/ get_operation_status_print

\* ---- list_models

list_models_deployment_state(model) ==
    IF model.deployment_state = DEPLOYED THEN "deployed" ELSE "undeployed"

ModelLines(model, deployment_state) ==
    <<Line("Model name: {}", model.name),
      Line("Model id: {}", SplitLast(model.name)),
      Line("Model display name: {}", model.display_name),
      Line("Model create time: {}", FormatTime(model.create_time)),
      Line("Model deployment state: {}", deployment_state)>>

\* The for loop of list_models over the elements resp[i..] of a page.
RECURSIVE list_models_loop(_, _)
list_models_loop(resp, i) ==
    IF i > Len(resp) THEN <<>>
    ELSE ModelLines(resp[i], list_models_deployment_state(resp[i]))
            \o list_models_loop(resp, i + 1)

list_models_call ==
    \E filter_ \in FilterArgs :
        Start("list_models",
              [NoArgs EXCEPT !.filter_ = filter_],
              [NoRequest EXCEPT
                  !.method = "list_models",
                  !.name = location_path(project_id, compute_region),
                  !.filter_ = filter_],
              <<Line("List of models:", <<>>)>>)

list_models_print ==
    /\ command = "list_models"
    /\ pc = "returned"
    /\ IF ~response.ok THEN Raise(response.error)
       ELSE Iterate(list_models_loop(response.value.items, 1))

list_models == list_models_call \/ list_models_print

\* ---- get_model

\* Mutant: the test is made against UNDEPLOYED, so an unspecified or
\* unknown state prints as deployed.
get_model_deployment_state_not_undeployed(model) ==
    IF model.deployment_state = 2 THEN "undeployed" ELSE "deployed"

get_model_deployment_state(model) ==
    IF model.deployment_state = DEPLOYED THEN "deployed" ELSE "undeployed"

\* Mutant: get_model calls delete_model on the name it built.
get_model_call_delete ==
    \E model_id \in ModelIdArgs :
        Start("get_model",
              [NoArgs EXCEPT !.model_id = model_id],
              [NoRequest EXCEPT
                  !.method = "delete_model",
                  !.name = model_path(project_id, compute_region, model_id)],
              <<>>)

get_model_call ==
    \E model_id \in ModelIdArgs :
        Start("get_model",
              [NoArgs EXCEPT !.model_id = model_id],
              [NoRequest EXCEPT
                  !.method = "get_model",
                  !.name = model_path(project_id, compute_region, model_id)],
              <<>>)

get_model_print ==
    /\ command = "get_model"
    /\ pc = "returned"
    /\ IF ~response.ok THEN Raise(response.error)
       ELSE Return(ModelLines(response.value,
                              get_model_deployment_state(response.value)))

get_model == get_model_call \/ get_model_print

\* ---- list_model_evaluations

\* Mutant: the loop stops one record early.
RECURSIVE list_model_evaluations_loop_short(_, _)
list_model_evaluations_loop_short(resp, i) ==
    IF i >= Len(resp) THEN <<>>
    ELSE <<Line("{}", resp[i])>>
            \o list_model_evaluations_loop_short(resp, i + 1)

\* The for loop of list_model_evaluations over the elements resp[i..] of a
\* page.
RECURSIVE list_model_evaluations_loop(_, _)
list_model_evaluations_loop(resp, i) ==
    IF i > Len(resp) THEN <<>>
    ELSE <<Line("{}", resp[i])>> \o list_model_evaluations_loop(resp, i + 1)

list_model_evaluations_call ==
    \E model_id \in ModelIdArgs :
        Start("list_model_evaluations",
              [NoArgs EXCEPT !.model_id = model_id],
              [NoRequest EXCEPT
                  !.method = "list_model_evaluations",
                  !.name = model_path(project_id, compute_region, model_id)],
              <<Line("List of model evaluations:", <<>>)>>)

list_model_evaluations_print ==
    /\ command = "list_model_evaluations"
    /\ pc = "returned"
    /\ IF ~response.ok THEN Raise(response.error)
       ELSE Iterate(list_model_evaluations_loop(response.value.items, 1))

list_model_evaluations ==
    list_model_evaluations_call \/ list_model_evaluations_print

\* ---- get_model_evaluation

get_model_evaluation_call ==
    \E model_id \in ModelIdArgs, evaluation_id \in EvaluationIdArgs :
        Start("get_model_evaluation",
              [NoArgs EXCEPT !.model_id = model_id,
                             !.model_evaluation_id = evaluation_id],
              [NoRequest EXCEPT
                  !.method = "get_model_evaluation",
                  !.name = model_evaluation_path(project_id, compute_region,
                                                 model_id, evaluation_id)],
              <<>>)

get_model_evaluation_print ==
    /\ command = "get_model_evaluation"
    /\ pc = "returned"
    /\ IF ~response.ok THEN Raise(response.error)
       ELSE Return(<<Line("Sentiment model precision: {}",
                          response.value.metrics.precision),
                     Line("Sentiment model recall: {}",
                          response.value.metrics.recall),
                     Line("Sentiment model f1 score: {}",
                          response.value.metrics.f1_score)>>)

get_model_evaluation == get_model_evaluation_call \/ get_model_evaluation_print

\* ---- display_evaluation

\* Mutant: the test of annotation_spec_id is inverted, so a class-scoped
\* entry is selected.
RECURSIVE display_evaluation_loop_inverted(_, _, _)
display_evaluation_loop_inverted(resp, i, id) ==
    IF i > Len(resp) THEN id
    ELSE display_evaluation_loop_inverted(resp, i + 1,
            IF resp[i].annotation_spec_id # ""
            THEN SplitLast(resp[i].name)
            ELSE id)

\* Mutant: the loop breaks at the first overall entry.
RECURSIVE display_evaluation_loop_break(_, _, _)
display_evaluation_loop_break(resp, i, id) ==
    IF i > Len(resp) THEN id
    ELSE IF resp[i].annotation_spec_id = ""
         THEN SplitLast(resp[i].name)
         ELSE display_evaluation_loop_break(resp, i + 1, id)

\* The for loop of display_evaluation over the elements resp[i..] of a
\* page: id is the value of the local model_evaluation_id so far.
RECURSIVE display_evaluation_loop(_, _, _)
display_evaluation_loop(resp, i, id) ==
    IF i > Len(resp) THEN id
    ELSE display_evaluation_loop(resp, i + 1,
            IF resp[i].annotation_spec_id = ""
            THEN SplitLast(resp[i].name)
            ELSE id)

\* The seven lines display_evaluation prints: one sequence for each way the
\* roundings can fall.
MetricLines(sentiment_metrics) ==
    {<<Line("Model Precision: {}%", precision),
       Line("Model Recall: {}%", recall),
       Line("Model F1 score: {}%", f1_score),
       Line("Model absolute error: {}%", mean_absolute_error),
       Line("Model mean squared error: {}%", mean_squared_error),
       Line("Model linear kappa: {}%", linear_kappa),
       Line("Model quadratic kappa: {}%", quadratic_kappa)>> :
        precision \in Percent(sentiment_metrics.precision),
        recall \in Percent(sentiment_metrics.recall),
        f1_score \in Percent(sentiment_metrics.f1_score),
        mean_absolute_error \in
            Percent(sentiment_metrics.mean_absolute_error),
        mean_squared_error \in Percent(sentiment_metrics.mean_squared_error),
        linear_kappa \in Percent(sentiment_metrics.linear_kappa),
        quadratic_kappa \in Percent(sentiment_metrics.quadratic_kappa)}

display_evaluation_call ==
    \E model_id \in ModelIdArgs :
        Start("display_evaluation",
              [NoArgs EXCEPT !.model_id = model_id],
              [NoRequest EXCEPT
                  !.method = "list_model_evaluations",
                  !.name = model_path(project_id, compute_region, model_id)],
              <<>>)

\* The request for the evaluation the loop selected.
display_evaluation_get(id) ==
    /\ request' = [NoRequest EXCEPT
          !.method = "get_model_evaluation",
          !.name = model_evaluation_path(project_id, compute_region,
                                         args.model_id, id)]
    /\ calls' = Append(calls, "get_model_evaluation")
    /\ pc' = "awaiting2"
    /\ UNCHANGED error

\* Mutant: model_evaluation_id is initialised to "" before the loop, so the
\* request is made also when nothing was selected.
display_evaluation_select_default ==
    /\ command = "display_evaluation"
    /\ pc = "returned"
    /\ IF ~response.ok THEN Raise(response.error)
       ELSE LET id == display_evaluation_loop(response.value.items, 1,
                                              model_evaluation_id)
            IN /\ elements' = elements \o response.value.items
               /\ IF response.value.next_page_token # 0
                  THEN /\ model_evaluation_id' = id
                       /\ NextPage
                       /\ UNCHANGED error
                  ELSE /\ model_evaluation_id' = IF id = UNSET THEN "" ELSE id
                       /\ display_evaluation_get(IF id = UNSET THEN ""
                                                 ELSE id)
               /\ UNCHANGED <<remote, command, args, response,
                              model_evaluation, operation, stdout, invocations>>

\* A page of the list came back: the loop scans it, and the iterator asks
\* for the next page; after the last page the evaluation selected is
\* requested, and reading the local that no element has bound fails.
display_evaluation_select ==
    /\ command = "display_evaluation"
    /\ pc = "returned"
    /\ IF ~response.ok THEN Raise(response.error)
       ELSE LET id == display_evaluation_loop(response.value.items, 1,
                                              model_evaluation_id)
            IN /\ elements' = elements \o response.value.items
               /\ model_evaluation_id' = id
               /\ IF response.value.next_page_token # 0
                  THEN /\ NextPage
                       /\ UNCHANGED error
                  ELSE IF id = UNSET
                       THEN /\ pc' = "exit1"
                            /\ error' = UnboundLocalError
                            /\ UNCHANGED <<request, calls>>
                       ELSE display_evaluation_get(id)
               /\ UNCHANGED <<remote, command, args, response,
                              model_evaluation, operation, stdout, invocations>>

display_evaluation_print ==
    /\ command = "display_evaluation"
    /\ pc = "returned2"
    /\ IF ~model_evaluation.ok THEN Raise(model_evaluation.error)
       ELSE \E lines \in MetricLines(model_evaluation.value.metrics) :
                Return(lines)

display_evaluation ==
    display_evaluation_call \/ display_evaluation_select
        \/ display_evaluation_print

\* ---- delete_model

delete_model_call ==
    \E model_id \in ModelIdArgs :
        Start("delete_model",
              [NoArgs EXCEPT !.model_id = model_id],
              [NoRequest EXCEPT
                  !.method = "delete_model",
                  !.name = model_path(project_id, compute_region, model_id)],
              <<>>)

\* Mutant: the confirmation is printed as soon as delete_model has handed
\* back the operation, without response.result().
delete_model_result_nowait ==
    /\ command = "delete_model"
    /\ pc = "returned"
    /\ IF ~response.ok THEN Raise(response.error)
       ELSE Return(<<Line("Model deleted. {}", <<>>)>>)

\* response.result() asks the remote for the operation: one get_operation
\* request.
delete_model_poll ==
    /\ request' = [NoRequest EXCEPT !.method = "get_operation",
                                    !.name = response.value]
    /\ calls' = Append(calls, "get_operation")
    /\ pc' = "awaiting2"
    /\ UNCHANGED <<remote, command, args, response, model_evaluation_id,
                   model_evaluation, operation, stdout, error, elements,
                   invocations>>

\* response.result(): the operation handed back is running, so it is polled
\* with get_operation until it is reported done; then its result is printed,
\* or its error raised.  Of the polls that would find the operation still
\* running, MaxPolls are taken.
delete_model_result ==
    /\ command = "delete_model"
    /\ \/ /\ pc = "returned"
          /\ IF ~response.ok THEN Raise(response.error)
             ELSE delete_model_poll
       \/ /\ pc = "returned2"
          /\ IF ~operation.ok THEN Raise(operation.error)
             ELSE IF ~operation.value.done
             THEN /\ \/ Len(calls) - 1 < MaxPolls
                     \/ operations[OperationIndex(response.value)].status
                           # "running"
                  /\ delete_model_poll
             ELSE IF operation.value.error = ""
             THEN Return(<<Line("Model deleted. {}", <<>>)>>)
             ELSE Raise(operation.value.error)

delete_model == delete_model_call \/ delete_model_result

\* ---- __main__

\* The process ends; the next invocation starts from a fresh process.
Exit ==
    /\ pc \in {"exit0", "exit1"}
    /\ pc' = "idle"
    /\ command' = ""
    /\ args' = NoArgs
    /\ request' = NoRequest
    /\ response' = NoResponse
    /\ model_evaluation_id' = UNSET
    /\ model_evaluation' = NoResponse
    /\ operation' = NoResponse
    /\ stdout' = <<>>
    /\ error' = ""
    /\ elements' = <<>>
    /\ calls' = <<>>
    /\ UNCHANGED <<remote, invocations>>

Next ==
    \/ create_model
    \/ get_operation_status
    \/ list_models
    \/ get_model
    \/ list_model_evaluations
    \/ get_model_evaluation
    \/ display_evaluation
    \/ delete_model
    \/ Exit
    \/ Serve
    \/ OperationCompletes

Spec == Init /\ [][Next]_vars

\* The program's own steps are taken when they can be: a call that has
\* returned is followed by the statements after it.  Nothing makes the
\* remote finish an operation.
ProgramStep ==
    \/ create_model_print
    \/ get_operation_status_print
    \/ list_models_print
    \/ get_model_print
    \/ list_model_evaluations_print
    \/ get_model_evaluation_print
    \/ display_evaluation_select
    \/ display_evaluation_print
    \/ delete_model_result

FairSpec == Spec /\ WF_vars(ProgramStep)

\* ------------------------------------------------------------------ claims

Exited == pc \in {"exit0", "exit1"}
ReadCommands == {"get_operation_status", "list_models", "get_model",
                 "list_model_evaluations", "get_model_evaluation",
                 "display_evaluation"}
MutatingMethods == {"create_model", "delete_model"}

\* The positions of the overall entries in an evaluation list.
Overall(list) == {i \in 1..Len(list) : list[i].annotation_spec_id = ""}

\* The commands that iterate over a list the remote hands out in pages.
ListCommands == {"list_models", "list_model_evaluations"}

\* display_evaluation has issued its get_model_evaluation call.
Requested ==
    /\ command = "display_evaluation"
    /\ pc \in {"awaiting2", "returned2", "exit0"}

\* The list display_evaluation iterates over has come back whole, and
\* `list` is all of it.
ListedWhole(list) ==
    /\ command = "display_evaluation"
    /\ pc = "returned"
    /\ response.ok
    /\ response.value.next_page_token = 0
    /\ list = elements \o response.value.items

\* The first three lines printed are the entry's precision, recall and F1
\* as percentages to two decimals: each within half a hundredth of a
\* percent of the metric.
ReportsMetricsOf(entry) ==
    /\ Len(stdout) = 7
    /\ stdout[1].text = "Model Precision: {}%"
    /\ stdout[2].text = "Model Recall: {}%"
    /\ stdout[3].text = "Model F1 score: {}%"
    /\ 10 * stdout[1].value - entry.metrics.precision \in -5..5
    /\ 10 * stdout[2].value - entry.metrics.recall \in -5..5
    /\ 10 * stdout[3].value - entry.metrics.f1_score \in -5..5

\* C1: delete_model prints "Model deleted" only after the delete request was
\* issued and the operation it returned has completed successfully; while
\* the operation runs, or when it ends in an error, nothing is printed.
C1_DeleteConfirmsAfterCompletion ==
    (command = "delete_model" /\ stdout # <<>>) =>
        /\ calls[1] = "delete_model"
        /\ \A i \in 2..Len(calls) : calls[i] = "get_operation"
        /\ response.ok
        /\ operation # NoResponse
        /\ operation.ok
        /\ operation.value.name = response.value
        /\ operation.value.done
        /\ operation.value.error = ""
        /\ OperationIndex(response.value) # 0
        /\ operations[OperationIndex(response.value)].kind = "delete"
        /\ operations[OperationIndex(response.value)].status = "done"
        /\ stdout[1].text = "Model deleted. {}"

C1_Witness ==
    /\ command = "delete_model"
    /\ pc = "exit0"
    /\ stdout # <<>>
    /\ "m1" \notin DOMAIN models
    /\ calls = <<"delete_model", "get_operation", "get_operation">>

\* C2: when the list returned holds an overall entry, the evaluation that
\* display_evaluation requests is an entry of the list with an empty
\* annotation_spec_id, named under the given project, region and model by
\* the last segment of the entry's name, and the metrics printed are that
\* entry's; a list returned whole that holds an overall entry is followed
\* by that request.
C2_DisplaySelectsOverall ==
    /\ [](Requested =>
            \E i \in Overall(elements) :
                /\ request.method = "get_model_evaluation"
                /\ request.name = elements[i].name
                /\ request.name =
                      model_path(project_id, compute_region, args.model_id)
                         \o <<"/", "modelEvaluations", "/",
                              model_evaluation_id>>
                /\ pc = "exit0" => ReportsMetricsOf(elements[i]))
    /\ [][(/\ ListedWhole(elements')
           /\ Overall(elements') # {}
           /\ pc' # pc) => pc' = "awaiting2"]_vars

C2_Witness ==
    /\ Requested
    /\ pc = "exit0"
    /\ Len(elements) = 3
    /\ Overall(elements) = {2}

\* C3: when the list returned holds no overall entry, display_evaluation
\* can only end in the error of the unset selector: it issues no
\* get_model_evaluation call and prints nothing.
C3_DisplayFailsWithoutOverall ==
    /\ []((command = "display_evaluation" /\ Overall(elements) = {}) =>
            /\ pc \in {"awaiting", "returned", "exit1"}
            /\ \A i \in 1..Len(calls) : calls[i] = "list_model_evaluations"
            /\ stdout = <<>>)
    /\ [][(/\ ListedWhole(elements')
           /\ Overall(elements') = {}
           /\ pc' # pc) =>
             /\ pc' = "exit1"
             /\ error' = UnboundLocalError
             /\ calls' = calls
             /\ stdout' = <<>>]_vars

C3_Witness ==
    /\ command = "display_evaluation"
    /\ pc = "exit1"
    /\ error = UnboundLocalError
    /\ Len(elements) = 2
    /\ Overall(elements) = {}

\* The client method a command calls first.
MethodOf(cmd) ==
    CASE cmd = "get_operation_status" -> "get_operation"
      [] cmd = "display_evaluation" -> "list_model_evaluations"
      [] OTHER -> cmd

C5_CreateReturnsWithoutWaiting ==
    /\ (command = "create_model" /\ pc = "returned")
          ~> (command = "create_model" /\ Exited)
    /\ []((command = "create_model" /\ pc = "exit0") =>
            /\ Len(stdout) = 2
            /\ OperationIndex(stdout[1].value) = Len(operations)
            /\ operations[Len(operations)].kind = "create")
    /\ []((/\ command = "get_operation_status"
           /\ Exited
           /\ OperationIndex(args.operation_full_id) # 0) =>
            /\ pc = "exit0"
            /\ stdout[1].value.name = args.operation_full_id)

\* get_operation_status reports as not done an operation an earlier
\* create_model printed.
C5_Witness ==
    /\ command = "get_operation_status"
    /\ pc = "exit0"
    /\ invocations = 2
    /\ operations[OperationIndex(args.operation_full_id)].kind = "create"
    /\ ~stdout[1].value.done

\* The value the call that just returned handed back.
Latest ==
    IF pc # "returned2" THEN response
    ELSE IF command = "delete_model" THEN operation
    ELSE model_evaluation

\* C6: when a remote call has returned an error, or the delete operation
\* has ended in one, the next step of the command ends it with that error,
\* with no further call and nothing more printed; a command that has failed
\* has printed no result: nothing at all, or, for the two list commands,
\* the header (printed before the remote is asked) and the elements of the
\* pages that came back before the failure; get_operation_status on a
\* well-formed name of no operation ends with NOT_FOUND.
C6_RemoteErrorPropagates ==
    /\ [][(/\ pc \in {"returned", "returned2"}
           /\ ~Latest.ok
           /\ pc' # pc) =>
             /\ pc' = "exit1"
             /\ error' = Latest.error
             /\ calls' = calls
             /\ stdout' = stdout
             /\ UNCHANGED remote]_vars
    /\ [][(/\ command = "delete_model"
           /\ pc = "returned2"
           /\ operation.ok
           /\ operation.value.done
           /\ operation.value.error # ""
           /\ pc' # pc) =>
             /\ pc' = "exit1"
             /\ error' = operation.value.error
             /\ error' = operations[OperationIndex(response.value)].error
             /\ calls' = calls
             /\ stdout' = <<>>]_vars
    /\ [](pc = "exit1" =>
            /\ error # ""
            /\ command \notin ListCommands => stdout = <<>>
            /\ command = "list_models" =>
                  Len(stdout) = 1 + 5 * Len(elements)
            /\ command = "list_model_evaluations" =>
                  Len(stdout) = 1 + Len(elements))
    /\ []((/\ command = "get_operation_status"
           /\ Exited
           /\ args.operation_full_id =
                 operation_path(project_id, compute_region, "op9")) =>
             /\ pc = "exit1"
             /\ error = "NOT_FOUND"
             /\ calls = <<"get_operation">>
             /\ stdout = <<>>)

C6_Witness ==
    /\ command = "get_operation_status"
    /\ pc = "exit1"
    /\ error = "NOT_FOUND"
    /\ args.operation_full_id =
          operation_path(project_id, compute_region, "op9")

\* The mutating calls among those an invocation has issued.
Mutations == {i \in 1..Len(calls) : calls[i] \in MutatingMethods}

\* C7: an invocation issues at most one mutating call, and only create_model
\* and delete_model issue one (their own); an operation is registered only
\* by serving such a call; models and evaluations change only when a
\* registered operation completes; and no step of a reading command changes
\* the remote models, operations or evaluations.
C7_OnlyCreateAndDeleteMutate ==
    /\ [](/\ Cardinality(Mutations) <= 1
          /\ Mutations # {} =>
                command \in MutatingMethods /\ calls[1] = command)
    /\ [][/\ Len(operations') # Len(operations) =>
                /\ Len(operations') = Len(operations) + 1
                /\ pc = "awaiting"
                /\ command \in MutatingMethods
                /\ request.method = command
          /\ (models' # models \/ evaluations' # evaluations) =>
                \E i \in 1..Len(operations) :
                    /\ operations[i].status = "running"
                    /\ operations'[i].status = "done"
                    /\ pc' = pc
          /\ (command \in ReadCommands /\ pc' # pc) => UNCHANGED remote]_vars

C7_Witness ==
    /\ invocations = 2
    /\ command = "get_model"
    /\ pc = "exit0"
    /\ Len(operations) = 1
    /\ operations[1].status = "running"

\* C8: list_models and get_model print "deployed" for DEPLOYED and
\* "undeployed" for every other deployment-state value, and classify every
\* value alike.
C8_DeploymentStateClassification ==
    /\ \A state \in DeploymentStates :
          /\ list_models_deployment_state([deployment_state |-> state])
                = get_model_deployment_state([deployment_state |-> state])
          /\ get_model_deployment_state([deployment_state |-> state])
                \in {"deployed", "undeployed"}
    /\ command = "list_models" =>
          /\ Len(stdout) = 1 + 5 * Len(elements)
          /\ \A i \in 1..Len(elements) :
                /\ stdout[1 + 5 * i].text = "Model deployment state: {}"
                /\ stdout[1 + 5 * i].value \in {"deployed", "undeployed"}
                /\ stdout[1 + 5 * i].value = "deployed"
                      <=> elements[i].deployment_state = DEPLOYED
    /\ (command = "get_model" /\ pc = "exit0") =>
          /\ Len(stdout) = 5
          /\ stdout[5].text = "Model deployment state: {}"
          /\ stdout[5].value \in {"deployed", "undeployed"}
          /\ stdout[5].value = "deployed"
                <=> response.value.deployment_state = DEPLOYED

C8_Witness ==
    /\ command = "list_models"
    /\ pc = "exit0"
    /\ Len(elements) = 2
    /\ elements[1].deployment_state = 3
    /\ elements[2].deployment_state = DEPLOYED

\* C9: list_model_evaluations prints the header and then the records
\* returned, each once and in the order returned, page after page; when
\* the last page has come back it ends successfully, and an empty result
\* ends successfully with the header alone.
C9_ListEvaluationsPrintsAll ==
    /\ command = "list_model_evaluations" =>
          /\ Len(stdout) = 1 + Len(elements)
          /\ stdout[1].text = "List of model evaluations:"
          /\ \A i \in 1..Len(elements) : stdout[1 + i].value = elements[i]
          /\ pc = "exit0" => error = "" /\ response.value.next_page_token = 0
    /\ (/\ command = "list_model_evaluations"
        /\ Exited
        /\ response.ok) => pc = "exit0"
    /\ (/\ command = "list_model_evaluations"
        /\ Exited
        /\ Len(calls) = 1
        /\ ModelIdOf(request.name) # ""
        /\ evaluations[ModelIdOf(request.name)] = <<>>) =>
          pc = "exit0" /\ Len(stdout) = 1

C9_Witness ==
    /\ command = "list_model_evaluations"
    /\ pc = "exit0"
    /\ Len(elements) = 3
    /\ Len(stdout) = 4

\* The largest element of a non-empty set of numbers.
Last(S) == CHOOSE i \in S : \A j \in S : j <= i

\* C10: display_evaluation requests and reports the last entry of the list
\* with an empty annotation_spec_id, and issues one get_model_evaluation
\* call however many entries match.
C10_DisplaySelectsLastOverall ==
    /\ Requested =>
          /\ Overall(elements) # {}
          /\ request.name = elements[Last(Overall(elements))].name
          /\ Cardinality({i \in 1..Len(calls) :
                            calls[i] = "get_model_evaluation"}) = 1
          /\ pc = "exit0" =>
                ReportsMetricsOf(elements[Last(Overall(elements))])
    /\ command = "display_evaluation" =>
          Cardinality({i \in 1..Len(calls) :
                         calls[i] = "get_model_evaluation"}) <= 1

C10_Witness ==
    /\ Requested
    /\ pc = "exit0"
    /\ Overall(elements) = {1, 3}

====
